---- MODULE Spec2Model ----
(***************************************************************************)
(* Model of serenity's model layer: src/model/utils.rs (keyed map          *)
(* builders, numeric identifier visitors, user_has_perms against the       *)
(* shared cache) and src/model/timestamp.rs (the Timestamp newtype over    *)
(* the chrono and the time backend).                                       *)
(***************************************************************************)
EXTENDS Integers, Sequences, FiniteSets, TLC

VARIABLES
    \* ---- the cache behind CACHE (RwLock<Cache>) and the entity cells ----
    cacheChannels,   \* ChannelId -> variant of the cached channel, or "none"
    chanGuildId,     \* ChannelId -> guild_id field inside the GuildChannel cell
    cacheGuilds,     \* set of GuildId present in cache.guilds
    guildPerms,      \* GuildId -> Guild::permissions_in(channel_id, current_user.id)
    \* ---- one call of user_has_perms ----
    pc,              \* position of the call
    channel_id,      \* argument
    permissions,     \* argument (mut)
    channel,         \* local: the variant returned by cache.channel
    guild_id,        \* local: 0 while unset
    result,          \* "none", "ItemMissing", "true", "false"
    requested,       \* the permissions argument as passed, kept for the claims
    \* ---- history of the call, for the atomicity claims ----
    atomicResults,   \* results an atomic evaluation gives on the states seen
    cellWriteBetween, \* a cell write committed between the two cell reads
    \* ---- one run of a deserialize_* builder of utils.rs ----
    bKind,           \* which builder runs
    bWire,           \* whether the Vec<T> decodes: "ok" or "malformed"
    bInput,          \* the decoded Vec<T>
    bPhase,          \* "start", "loop", "done"
    bIdx,            \* next element of the for loop
    bMap,            \* the HashMap under construction (a function on its keys)
    bHeap,           \* the Arc<RwLock<T>> cells allocated so far, by address
    bOut,            \* "running", "Ok", "Ok(cell)", an Err(..) or "panic"
    \* ---- one identifier decoded by deserialize_u16 / deserialize_u64 ----
    nVisitor,        \* "U16Visitor" or "U64Visitor"
    nNeg,            \* the integer n on the wire: its sign ..
    nMag,            \* .. and magnitude, 16-bit limbs, least significant first
    nStr,            \* the decimal string of n, one character per element
    nNative,         \* outcome of decoding the native number: [tag, val | msg]
    nText,           \* outcome of decoding the string
    \* ---- one Timestamp built and used under each backend ----
    tCtor,           \* "from_discord_id" or "from_unix_timestamp"
    tNeg,            \* the constructor's argument: its sign ..
    tArg,            \* .. and magnitude in 16-bit limbs
    tsChrono,        \* the Timestamp of the chrono build: [tag, days, sod, nanos]
    tsTime,          \* the Timestamp of the time build
    strChrono,       \* to_string() under chrono, one character per element
    strTime,         \* to_string() under time
    unixChrono,      \* unix_timestamp() under chrono: [tag, neg, mag]
    unixTime         \* unix_timestamp() under time

permVars == <<cacheChannels, chanGuildId, cacheGuilds, guildPerms, pc, channel_id,
              permissions, channel, guild_id, result, requested, atomicResults,
              cellWriteBetween>>

buildVars == <<bKind, bWire, bInput, bPhase, bIdx, bMap, bHeap, bOut>>

numVars == <<nVisitor, nNeg, nMag, nStr, nNative, nText>>

timeVars == <<tCtor, tNeg, tArg, tsChrono, tsTime, strChrono, strTime, unixChrono,
              unixTime>>

vars == <<permVars, buildVars, numVars, timeVars>>

----------------------------------------------------------------------------
(* Bounds of the permission model.  A call touches the cache entry of its own *)
(* channel_id only, so one channel identifier is kept; it may be absent.      *)
NumGuilds == 2
MaxPermission == 3

ChanIds == {1}
GuildIds == 1..NumGuilds
PermVals == 0..MaxPermission
NonGuildVariants == {"Group", "Private", "Category"}
Variants == {"Guild"} \cup NonGuildVariants

----------------------------------------------------------------------------
(* Permissions: a bit set held in an integer *)

\* Permissions::remove(other): self &= !other
RECURSIVE PermissionsRemove(_, _)
PermissionsRemove(a, b) ==
    IF a = 0 THEN 0
    ELSE ((a % 2) * (1 - (b % 2))) + 2 * PermissionsRemove(a \div 2, b \div 2)

\* Permissions::is_empty()
PermissionsIsEmpty(a) == a = 0

----------------------------------------------------------------------------
(* Cache lookups *)

\* Cache::channel(id): Some(variant handle) or None
CacheChannel(id) == cacheChannels[id]

\* Cache::guild(id): Some(handle) or None
CacheGuild(id) == id \in cacheGuilds

\* Guild::permissions_in(channel_id, user_id) read through the guild cell
PermissionsIn(g) == guildPerms[g]

\* lifetime of `let cache = CACHE.read()`: from the first statement to the return
CacheGuardDroppedAfterLookup(p) == p = "lookup_channel"
CacheGuardHeld(p) == p \in {"lookup_channel", "classify", "lookup_guild", "read_guild"}

\* What one evaluation of the whole check on the current state would give
AtomicCheckOn(chs, gids, gs, gp, c, req) ==
    IF chs[c] = "none" THEN "ItemMissing"
    ELSE IF chs[c] \in NonGuildVariants THEN "true"
    ELSE IF gids[c] \notin gs THEN "ItemMissing"
    ELSE IF \A i \in 0..MaxPermission :
              ((req \div (2^i)) % 2 = 1) => ((gp[gids[c]] \div (2^i)) % 2 = 1)
         THEN "true" ELSE "false"

----------------------------------------------------------------------------
(* user_has_perms, statement by statement *)

\* l.150-152: enter, take the cache read lock
Call(c, p) ==
    /\ pc = "idle"
    /\ pc' = "lookup_channel"
    /\ channel_id' = c
    /\ permissions' = p
    /\ requested' = p
    /\ atomicResults' =
          {AtomicCheckOn(cacheChannels, chanGuildId, cacheGuilds, guildPerms, c, p)}
    /\ cellWriteBetween' = FALSE
    /\ UNCHANGED <<cacheChannels, chanGuildId, cacheGuilds, guildPerms, channel,
                   guild_id, result>>

\* l.154-157: cache.channel(channel_id)
LookupChannel ==
    /\ pc = "lookup_channel"
    /\ IF CacheChannel(channel_id) = "none"
         THEN /\ result' = "ItemMissing"
              /\ pc' = "done"
              /\ UNCHANGED channel
         ELSE /\ channel' = CacheChannel(channel_id)
              /\ pc' = "classify"
              /\ UNCHANGED result
    /\ UNCHANGED <<cacheChannels, chanGuildId, cacheGuilds, guildPerms, channel_id,
                   permissions, guild_id, requested, atomicResults, cellWriteBetween>>

\* l.159-174: match channel; the Guild arm reads guild_id under the cell's read
\* lock, a temporary dropped at the end of the statement
CategoryFallsThrough(v) == v \in {"Group", "Private"}
GrantsAll(v) == v \in {"Group", "Private", "Category"}

Classify ==
    /\ pc = "classify"
    /\ IF GrantsAll(channel)
         THEN /\ result' = "true"
              /\ pc' = "done"
              /\ UNCHANGED guild_id
         ELSE /\ guild_id' = chanGuildId[channel_id]
              /\ pc' = "lookup_guild"
              /\ UNCHANGED result
    /\ UNCHANGED <<cacheChannels, chanGuildId, cacheGuilds, guildPerms, channel_id,
                   permissions, channel, requested, atomicResults, cellWriteBetween>>

\* l.176-179: cache.guild(guild_id)
GuildFoundAlways(g) == TRUE
GuildFound(g) == CacheGuild(g)

LookupGuild ==
    /\ pc = "lookup_guild"
    /\ IF GuildFound(guild_id)
         THEN /\ pc' = "read_guild"
              /\ UNCHANGED result
         ELSE /\ result' = "ItemMissing"
              /\ pc' = "done"
    /\ UNCHANGED <<cacheChannels, chanGuildId, cacheGuilds, guildPerms, channel_id,
                   permissions, channel, guild_id, requested, atomicResults, cellWriteBetween>>

\* l.185: permissions.remove(perms)
RemoveSwapped(p, held) == PermissionsRemove(held, p)
Remove(p, held) == PermissionsRemove(p, held)

\* l.181-187: guild.read().permissions_in(..); permissions.remove(perms);
\* Ok(permissions.is_empty())
ReadGuild ==
    /\ pc = "read_guild"
    /\ permissions' = Remove(permissions, PermissionsIn(guild_id))
    /\ result' = IF PermissionsIsEmpty(permissions') THEN "true" ELSE "false"
    /\ pc' = "done"
    /\ UNCHANGED <<cacheChannels, chanGuildId, cacheGuilds, guildPerms, channel_id,
                   channel, guild_id, requested, atomicResults, cellWriteBetween>>

\* the caller takes the result; the next call starts from fresh locals
Return ==
    /\ pc = "done"
    /\ pc' = "idle"
    /\ channel_id' = 1
    /\ permissions' = 0
    /\ channel' = "none"
    /\ guild_id' = 0
    /\ result' = "none"
    /\ requested' = 0
    /\ atomicResults' = {}
    /\ cellWriteBetween' = FALSE
    /\ UNCHANGED <<cacheChannels, chanGuildId, cacheGuilds, guildPerms>>

----------------------------------------------------------------------------
(* Writers *)

\* history kept while a call is in progress
Observe(chs, gids, gs, gp) ==
    IF pc \in {"lookup_channel", "classify", "lookup_guild", "read_guild"}
      THEN atomicResults \cup {AtomicCheckOn(chs, gids, gs, gp, channel_id, permissions)}
      ELSE atomicResults

\* a writer of the cache map needs CACHE.write(): no reader may hold the lock
CacheInsertChannel(c, v, g) ==
    /\ ~CacheGuardHeld(pc)
    /\ cacheChannels' = [cacheChannels EXCEPT ![c] = v]
    /\ chanGuildId' = [chanGuildId EXCEPT ![c] = IF v = "Guild" THEN g ELSE 1]
    /\ atomicResults' = Observe(cacheChannels', chanGuildId', cacheGuilds, guildPerms)
    /\ UNCHANGED <<cacheGuilds, guildPerms, pc, channel_id, permissions, channel,
                   guild_id, result, requested, cellWriteBetween>>

CacheRemoveChannel(c) ==
    /\ ~CacheGuardHeld(pc)
    /\ cacheChannels[c] # "none"
    /\ cacheChannels' = [cacheChannels EXCEPT ![c] = "none"]
    /\ chanGuildId' = [chanGuildId EXCEPT ![c] = 1]
    /\ atomicResults' = Observe(cacheChannels', chanGuildId', cacheGuilds, guildPerms)
    /\ UNCHANGED <<cacheGuilds, guildPerms, pc, channel_id, permissions, channel,
                   guild_id, result, requested, cellWriteBetween>>

CacheInsertGuild(g, p) ==
    /\ ~CacheGuardHeld(pc)
    /\ cacheGuilds' = cacheGuilds \cup {g}
    /\ guildPerms' = [guildPerms EXCEPT ![g] = p]
    /\ atomicResults' = Observe(cacheChannels, chanGuildId, cacheGuilds', guildPerms')
    /\ UNCHANGED <<cacheChannels, chanGuildId, pc, channel_id, permissions, channel,
                   guild_id, result, requested, cellWriteBetween>>

CacheRemoveGuild(g) ==
    /\ ~CacheGuardHeld(pc)
    /\ g \in cacheGuilds
    /\ cacheGuilds' = cacheGuilds \ {g}
    /\ guildPerms' = [guildPerms EXCEPT ![g] = 0]
    /\ atomicResults' = Observe(cacheChannels, chanGuildId, cacheGuilds', guildPerms')
    /\ UNCHANGED <<cacheChannels, chanGuildId, pc, channel_id, permissions, channel,
                   guild_id, result, requested, cellWriteBetween>>

\* a holder of the Arc<RwLock<GuildChannel>> handle writes through the cell's own lock
WriteChannelCell(c, g) ==
    /\ cacheChannels[c] = "Guild"
    /\ chanGuildId[c] # g
    /\ chanGuildId' = [chanGuildId EXCEPT ![c] = g]
    /\ atomicResults' = Observe(cacheChannels, chanGuildId', cacheGuilds, guildPerms)
    /\ cellWriteBetween' = (cellWriteBetween \/ pc \in {"lookup_guild", "read_guild"})
    /\ UNCHANGED <<cacheChannels, cacheGuilds, guildPerms, pc, channel_id, permissions,
                   channel, guild_id, result, requested>>

\* a holder of the Arc<RwLock<Guild>> handle writes through the cell's own lock
WriteGuildCell(g, p) ==
    /\ g \in cacheGuilds
    /\ guildPerms[g] # p
    /\ guildPerms' = [guildPerms EXCEPT ![g] = p]
    /\ atomicResults' = Observe(cacheChannels, chanGuildId, cacheGuilds, guildPerms')
    /\ cellWriteBetween' = (cellWriteBetween \/ pc \in {"lookup_guild", "read_guild"})
    /\ UNCHANGED <<cacheChannels, chanGuildId, cacheGuilds, pc, channel_id, permissions,
                   channel, guild_id, result, requested>>

----------------------------------------------------------------------------
PermsIdle ==
    /\ cacheChannels = [c \in ChanIds |-> "none"]
    /\ chanGuildId = [c \in ChanIds |-> 1]
    /\ cacheGuilds = {}
    /\ guildPerms = [g \in GuildIds |-> 0]
    /\ pc = "idle"
    /\ channel_id = 1
    /\ permissions = 0
    /\ channel = "none"
    /\ guild_id = 0
    /\ result = "none"
    /\ requested = 0
    /\ atomicResults = {}
    /\ cellWriteBetween = FALSE

----------------------------------------------------------------------------
(* The identifier-keyed map builders and deserialize_single_recipient *)

MaxLen == 3
NumIds == 2
Ids == 1..NumIds
DataVals == {"a", "b"}

\* decoded entities, by the field the builder keys them with
ById == [id : Ids, data : DataVals]                     \* Emoji, Role, GuildChannel, User
ByUserId == [user_id : Ids, data : DataVals]            \* Presence, VoiceState
Members == [user : [id : Ids], data : DataVals]         \* Member; user is its User cell
Channels ==
    [variant : {"Group"}, channel_id : Ids, data : DataVals]
      \cup [variant : {"Private"}, id : Ids, data : DataVals]
      \cup [variant : {"Guild", "Category"}, id : {1}, data : {"a"}]

SeqsUpTo(S, n) == UNION {[1..k -> S] : k \in 0..n}

Builders ==
    {"emojis", "guild_channels", "members", "presences", "private_channels",
     "roles", "users", "voice_states", "single_recipient"}

ElementsOf(kind) ==
    CASE kind \in {"emojis", "roles", "guild_channels", "users", "single_recipient"} -> ById
      [] kind \in {"presences", "voice_states"} -> ByUserId
      [] kind = "members" -> Members
      [] kind = "private_channels" -> Channels

\* HashMap::insert(k, v): an existing entry for k is overwritten
InsertKeepsFirst(m, k, v) == IF k \in DOMAIN m THEN m ELSE m @@ (k :> v)
Insert(m, k, v) == [x \in DOMAIN m \cup {k} |-> IF x = k THEN v ELSE m[x]]

\* Arc::new(RwLock::new(v)): a cell at an address not in use
ArcNew(heap, v) == Append(heap, v)

\* let vec: Vec<T> = Deserialize::deserialize(deserializer)?;
Decode ==
    /\ bPhase = "start"
    /\ IF bWire = "ok"
         THEN bPhase' = "loop" /\ UNCHANGED bOut
         ELSE bPhase' = "done" /\ bOut' = "Err(decode)"
    /\ UNCHANGED <<bKind, bWire, bInput, bIdx, bMap, bHeap>>

\* one turn of `for x in vec { map.insert(key, x) }`, storing x itself
InsertPlain(kind, key) ==
    /\ bKind = kind /\ bPhase = "loop" /\ bIdx <= Len(bInput)
    /\ bMap' = Insert(bMap, key, bInput[bIdx])
    /\ bIdx' = bIdx + 1
    /\ UNCHANGED <<bKind, bWire, bInput, bPhase, bHeap, bOut>>

\* one turn of `for x in vec { map.insert(key, Arc::new(RwLock::new(x))) }`
InsertCell(kind, key) ==
    /\ bKind = kind /\ bPhase = "loop" /\ bIdx <= Len(bInput)
    /\ bHeap' = ArcNew(bHeap, bInput[bIdx])
    /\ bMap' = Insert(bMap, key, Len(bHeap'))
    /\ bIdx' = bIdx + 1
    /\ UNCHANGED <<bKind, bWire, bInput, bPhase, bOut>>

deserialize_emojis == InsertPlain("emojis", bInput[bIdx].id)

deserialize_guild_channels == InsertCell("guild_channels", bInput[bIdx].id)

deserialize_members == InsertPlain("members", bInput[bIdx].user.id)

deserialize_presences == InsertPlain("presences", bInput[bIdx].user_id)

deserialize_private_channels ==
    /\ bKind = "private_channels" /\ bPhase = "loop" /\ bIdx <= Len(bInput)
    /\ LET private_channel == bInput[bIdx] IN
         IF private_channel.variant \in {"Guild", "Category"}
           THEN \* unreachable!(..)
                /\ bPhase' = "done" /\ bOut' = "panic"
                /\ UNCHANGED <<bMap, bIdx>>
           ELSE /\ bMap' = Insert(bMap,
                                  IF private_channel.variant = "Group"
                                    THEN private_channel.channel_id
                                    ELSE private_channel.id,
                                  private_channel)
                /\ bIdx' = bIdx + 1
                /\ UNCHANGED <<bPhase, bOut>>
    /\ UNCHANGED <<bKind, bWire, bInput, bHeap>>

deserialize_roles == InsertPlain("roles", bInput[bIdx].id)

deserialize_users == InsertCell("users", bInput[bIdx].id)

deserialize_voice_states == InsertPlain("voice_states", bInput[bIdx].user_id)

\* Ok(map) once the loop has consumed vec
ReturnMap ==
    /\ bKind # "single_recipient" /\ bPhase = "loop" /\ bIdx > Len(bInput)
    /\ bPhase' = "done" /\ bOut' = "Ok"
    /\ UNCHANGED <<bKind, bWire, bInput, bIdx, bMap, bHeap>>

\* l.106-110: which element of users becomes the recipient
LastUser(users) == users[Len(users)]
FirstUser(users) == users[1]

deserialize_single_recipient ==
    /\ bKind = "single_recipient" /\ bPhase = "loop"
    /\ bPhase' = "done"
    /\ IF bInput = <<>>
         THEN /\ bOut' = "Err(Expected a single recipient)"
              /\ UNCHANGED bHeap
         ELSE /\ bHeap' = ArcNew(bHeap, FirstUser(bInput))
              /\ bOut' = "Ok(cell)"
    /\ UNCHANGED <<bKind, bWire, bInput, bIdx, bMap>>

BuildIdle ==
    /\ bKind = "none" /\ bWire = "ok" /\ bInput = <<>> /\ bPhase = "done"
    /\ bIdx = 1 /\ bMap = <<>> /\ bHeap = <<>> /\ bOut = "none"

----------------------------------------------------------------------------
(* deserialize_u16 / deserialize_u64 and the visitors of num_visitors!        *)
(* Integers wider than TLC's are held as sequences of 16-bit limbs, least     *)
(* significant first, without high zero limbs (0 is the empty sequence).      *)

NumLimbs == 5
SmallLimbs == 1
LimbBase == 2^16
LimbVals == {0, 32768, 65535} \cup 1..SmallLimbs
ExampleId == <<7, 49410, 1626, 625>>      \* 175928847299117063
ExampleSecs == <<38017, 22308>>           \* 1462015105
YearZeroSecs == <<31745, 31092, 14>>       \* 62167219201: one second before year 0

RECURSIVE Trim(_)
Trim(l) == IF l # <<>> /\ l[Len(l)] = 0 THEN Trim(SubSeq(l, 1, Len(l) - 1)) ELSE l

\* l padded with zero limbs to k limbs
Pad(l, k) == [i \in 1..k |-> IF i <= Len(l) THEN l[i] ELSE 0]

\* l * m + a for small m and a
RECURSIVE MulAddFrom(_, _, _, _)
MulAddFrom(l, m, carry, i) ==
    IF i > Len(l)
      THEN (IF carry = 0 THEN <<>>
            ELSE <<carry % LimbBase>> \o MulAddFrom(l, m, carry \div LimbBase, i))
    ELSE LET cur == l[i] * m + carry
         IN  <<cur % LimbBase>> \o MulAddFrom(l, m, cur \div LimbBase, i + 1)
MulAdd(l, m, a) == Trim(MulAddFrom(l, m, a, 1))

\* quotient and remainder of l by a small d, from the most significant limb down
RECURSIVE DivFrom(_, _, _, _)
DivFrom(l, d, rem, i) ==
    IF i = 0 THEN [q |-> <<>>, r |-> rem]
    ELSE LET cur == rem * LimbBase + l[i]
             rest == DivFrom(l, d, cur % d, i - 1)
         IN  [q |-> Append(rest.q, cur \div d), r |-> rest.r]
DivSmall(l, d) ==
    LET x == DivFrom(l, d, 0, Len(l)) IN [q |-> Trim(x.q), r |-> x.r]

\* a <= b on magnitudes
RECURSIVE LimbsLeqFrom(_, _, _)
LimbsLeqFrom(a, b, i) ==
    IF i = 0 THEN TRUE
    ELSE IF a[i] # b[i] THEN a[i] < b[i]
    ELSE LimbsLeqFrom(a, b, i - 1)
LimbsLeq(a, b) ==
    IF Len(a) # Len(b) THEN Len(a) < Len(b) ELSE LimbsLeqFrom(a, b, Len(a))

\* limbs of the target type: u16 and u64
TypeLimbs(visitor) == IF visitor = "U16Visitor" THEN 1 ELSE 4
TypeName(visitor) == IF visitor = "U16Visitor" THEN "u16" ELSE "u64"

\* the 64-bit two's complement pattern of -mag (1 <= mag <= 2^63)
RECURSIVE AddOneFrom(_, _)
AddOneFrom(l, i) ==
    IF i > Len(l) THEN l
    ELSE IF l[i] = LimbBase - 1 THEN AddOneFrom([l EXCEPT ![i] = 0], i + 1)
    ELSE [l EXCEPT ![i] = l[i] + 1]
TwosComplement64(mag) ==
    AddOneFrom([i \in 1..4 |-> (LimbBase - 1) - Pad(mag, 4)[i]], 1)

\* `v as $type` on a 64-bit pattern: the low limbs are kept
Cast(bits, visitor) ==
    [tag |-> "Ok", val |-> Trim(SubSeq(Pad(bits, 4), 1, TypeLimbs(visitor)))]

\* l.215: fn visit_i64(self, v: i64) { Ok(v as $type) }
visit_i64(visitor, neg, mag) ==
    Cast(IF neg THEN TwosComplement64(mag) ELSE mag, visitor)

\* l.217: fn visit_u64(self, v: u64) { Ok(v as $type) }
visit_u64(visitor, mag) == Cast(mag, visitor)

\* str::parse::<$type>() for an unsigned type: an optional '+', then digits
\* accumulated with checked_mul and checked_add
DigitOf(c) ==
    CASE c = "0" -> 0 [] c = "1" -> 1 [] c = "2" -> 2 [] c = "3" -> 3 [] c = "4" -> 4
      [] c = "5" -> 5 [] c = "6" -> 6 [] c = "7" -> 7 [] c = "8" -> 8 [] c = "9" -> 9
      [] OTHER -> -1

RECURSIVE ParseDigits(_, _, _, _)
ParseDigits(str, i, acc, limbs) ==
    IF i > Len(str) THEN [tag |-> "Ok", val |-> acc]
    ELSE IF DigitOf(str[i]) < 0 THEN [tag |-> "Err", msg |-> <<"InvalidDigit">>]
    ELSE LET next == MulAdd(acc, 10, DigitOf(str[i]))
         IN  IF Len(next) > limbs THEN [tag |-> "Err", msg |-> <<"PosOverflow">>]
             ELSE ParseDigits(str, i + 1, next, limbs)

ParseUnsigned(str, limbs) ==
    IF str = <<>> THEN [tag |-> "Err", msg |-> <<"Empty">>]
    ELSE IF Len(str) = 1 /\ str[1] \in {"+", "-"} THEN [tag |-> "Err", msg |-> <<"InvalidDigit">>]
    ELSE IF str[1] = "+" THEN ParseDigits(str, 2, <<>>, limbs)
    ELSE ParseDigits(str, 1, <<>>, limbs)

\* l.203-213: fn visit_str(self, v: &str)
visit_str(visitor, v) ==
    LET parsed == ParseUnsigned(v, TypeLimbs(visitor))
    IN  IF parsed.tag = "Ok" THEN parsed
        ELSE [tag |-> "Err", msg |-> <<"Unknown ", TypeName(visitor), " value: ">> \o v]

\* l.128-134: deserializer.deserialize_any(visitor) on a number of the wire: a
\* non-negative integer up to u64::MAX reaches visit_u64, a negative one down
\* to i64::MIN reaches visit_i64, any other number arrives as a float, which the
\* visitor does not accept
deserialize_any_number(visitor, neg, mag) ==
    IF ~neg /\ Len(mag) <= 4 THEN visit_u64(visitor, mag)
    ELSE IF neg /\ LimbsLeq(mag, <<0, 0, 0, 32768>>) THEN visit_i64(visitor, neg, mag)
    ELSE [tag |-> "Err", msg |-> <<"invalid type: floating point, expected identifier">>]

\* l.128-134: deserializer.deserialize_any(visitor) on a string of the wire
deserialize_any_string(visitor, str) == visit_str(visitor, str)

\* the decimal string of n
DigitChar(d) == CASE d = 0 -> "0" [] d = 1 -> "1" [] d = 2 -> "2" [] d = 3 -> "3"
                  [] d = 4 -> "4" [] d = 5 -> "5" [] d = 6 -> "6" [] d = 7 -> "7"
                  [] d = 8 -> "8" [] d = 9 -> "9"
RECURSIVE DecimalOfMag(_)
DecimalOfMag(mag) ==
    IF mag = <<>> THEN <<>>
    ELSE LET x == DivSmall(mag, 10) IN Append(DecimalOfMag(x.q), DigitChar(x.r))
DecimalString(neg, mag) ==
    IF mag = <<>> THEN <<"0">>
    ELSE (IF neg THEN <<"-">> ELSE <<>>) \o DecimalOfMag(mag)

\* the wire carries n as a string
WriteString ==
    /\ nStr = <<>>
    /\ nStr' = DecimalString(nNeg, nMag)
    /\ UNCHANGED <<nVisitor, nNeg, nMag, nNative, nText>>

\* deserialize_u16 / deserialize_u64 on the native number
DecodeNative ==
    /\ nNative.tag = "Pending"
    /\ nNative' = deserialize_any_number(nVisitor, nNeg, nMag)
    /\ UNCHANGED <<nVisitor, nNeg, nMag, nStr, nText>>

\* deserialize_u16 / deserialize_u64 on the string
DecodeString ==
    /\ nStr # <<>> /\ nText.tag = "Pending"
    /\ nText' = deserialize_any_string(nVisitor, nStr)
    /\ UNCHANGED <<nVisitor, nNeg, nMag, nStr, nNative>>

NumIdle ==
    /\ nVisitor = "none" /\ nNeg = FALSE /\ nMag = <<>> /\ nStr = <<"0">>
    /\ nNative = [tag |-> "None"] /\ nText = [tag |-> "None"]

----------------------------------------------------------------------------
(* timestamp.rs: Timestamp over chrono::DateTime<Utc> and time::OffsetDateTime *)
(* A Timestamp is held as both libraries hold it: a day (counted from          *)
(* 1970-01-01), the second of that day and the nanosecond of that second.      *)

\* l.38: const DISCORD_EPOCH: u64 = 1_420_070_400_000, in limbs
DISCORD_EPOCH == <<45056, 41674, 330>>

\* a + b on magnitudes
RECURSIVE AddFrom(_, _, _, _)
AddFrom(a, b, carry, i) ==
    IF i > Len(a) /\ i > Len(b) THEN (IF carry = 0 THEN <<>> ELSE <<carry>>)
    ELSE LET cur == (IF i <= Len(a) THEN a[i] ELSE 0)
                      + (IF i <= Len(b) THEN b[i] ELSE 0) + carry
         IN  <<cur % LimbBase>> \o AddFrom(a, b, cur \div LimbBase, i + 1)
Add(a, b) == Trim(AddFrom(a, b, 0, 1))

\* id >> 22
ShiftRight21(l) == DivSmall(DivSmall(l, 2048).q, 1024).q
ShiftRight22(l) == DivSmall(DivSmall(l, 2048).q, 2048).q

\* l.66, l.165: ((id >> 22) + DISCORD_EPOCH) as i64.  The u64 addition aborts a
\* build with overflow checks when it carries out of 64 bits.
IdMillis(id) ==
    LET sum == Add(ShiftRight22(id), DISCORD_EPOCH)
    IN  IF Len(sum) > 4 THEN [tag |-> "Overflow"]
        ELSE IF Len(sum) = 4 /\ sum[4] >= 32768
               THEN [tag |-> "Ok", neg |-> TRUE, mag |-> Trim(TwosComplement64(sum))]
               ELSE [tag |-> "Ok", neg |-> FALSE, mag |-> sum]

\* i64::div_euclid / rem_euclid by a small positive d
DivRemEuclid(neg, mag, d) ==
    LET x == DivSmall(mag, d)
    IN  IF ~neg THEN [neg |-> FALSE, mag |-> x.q, r |-> x.r]
        ELSE IF x.r = 0 THEN [neg |-> x.q # <<>>, mag |-> x.q, r |-> 0]
        ELSE [neg |-> TRUE, mag |-> MulAdd(x.q, 1, 1), r |-> d - x.r]

FitsI32(mag) == Len(mag) <= 1 \/ (Len(mag) = 2 /\ mag[2] < 32768)
LimbsToInt(mag) == Pad(mag, 2)[1] + Pad(mag, 2)[2] * LimbBase
IntToLimbs(n) == Trim(<<n % LimbBase, n \div LimbBase>>)

\* seconds since the epoch split into a day and the second of the day
\* (secs.div_euclid(86_400), secs.rem_euclid(86_400)), 86_400 = 128 * 675
DayAndSecond(neg, mag) ==
    LET a == DivRemEuclid(neg, mag, 128)
        b == DivRemEuclid(a.neg, a.mag, 675)
    IN  IF ~FitsI32(b.mag) THEN [tag |-> "None"]
        ELSE [tag |-> "Ok",
              days |-> IF b.neg THEN 0 - LimbsToInt(b.mag) ELSE LimbsToInt(b.mag),
              sod |-> b.r * 128 + a.r]

\* the dates a chrono NaiveDate holds: -262144-01-01 ..= 262143-12-31
ChronoInRange(days) == -96465658 <= days /\ days <= 95026601
\* the dates a time Date holds: -9999-01-01 ..= 9999-12-31
TimeInRange(days) == -4371587 <= days /\ days <= 2932896

\* NaiveDateTime::from_timestamp_opt(secs, nsecs)
chrono_from_timestamp_opt(neg, mag, nsecs) ==
    LET p == DayAndSecond(neg, mag)
    IN  IF p.tag = "Ok" /\ ChronoInRange(p.days)
          THEN [tag |-> "Ok", days |-> p.days, sod |-> p.sod, nanos |-> nsecs]
          ELSE [tag |-> "None"]

\* OffsetDateTime::from_unix_timestamp(secs), with the nanosecond then set
time_from_unix_timestamp_checked(neg, mag, nsecs) ==
    LET p == DayAndSecond(neg, mag)
    IN  IF p.tag = "Ok" /\ TimeInRange(p.days)
          THEN [tag |-> "Ok", days |-> p.days, sod |-> p.sod, nanos |-> nsecs]
          ELSE [tag |-> "None"]

\* l.65-67 (chrono): Utc.timestamp_millis_opt(ms).unwrap()
chrono_from_discord_id(id) ==
    LET ms == IdMillis(id)
    IN  IF ms.tag # "Ok" THEN [tag |-> "Panic"]
        ELSE LET s == DivRemEuclid(ms.neg, ms.mag, 1000)
                 dt == chrono_from_timestamp_opt(s.neg, s.mag, s.r * 1000000)
             IN  IF dt.tag = "Ok" THEN dt ELSE [tag |-> "Panic"]

\* l.163-169 (time): Duration::milliseconds(ms).whole_nanoseconds(), then
\* OffsetDateTime::from_unix_timestamp_nanos(ns).expect("can't fail")
time_from_discord_id(id) ==
    LET ms == IdMillis(id)
    IN  IF ms.tag # "Ok" THEN [tag |-> "Panic"]
        ELSE LET ns == MulAdd(MulAdd(ms.mag, 1000, 0), 1000, 0)
                 a == DivRemEuclid(ms.neg, ns, 1000)
                 b == DivRemEuclid(a.neg, a.mag, 1000)
                 c == DivRemEuclid(b.neg, b.mag, 1000)
                 dt == time_from_unix_timestamp_checked(
                           c.neg, c.mag, (c.r * 1000 + b.r) * 1000 + a.r)
             IN  IF dt.tag = "Ok" THEN dt ELSE [tag |-> "Panic"]

\* l.80-83 (chrono): from_timestamp_opt(secs, 0).ok_or(InvalidTimestamp)
chrono_from_unix_timestamp(neg, mag) ==
    LET dt == chrono_from_timestamp_opt(neg, mag, 0)
    IN  IF dt.tag = "Ok" THEN dt ELSE [tag |-> "Err(InvalidTimestamp)"]

\* l.183-186 (time): from_unix_timestamp(secs).map_err(|_| InvalidTimestamp)
time_from_unix_timestamp(neg, mag) ==
    LET dt == time_from_unix_timestamp_checked(neg, mag, 0)
    IN  IF dt.tag = "Ok" THEN dt ELSE [tag |-> "Err(InvalidTimestamp)"]

\* l.87-89, l.190-192: unix_timestamp(): days * 86_400 + second of the day
unix_timestamp(ts) ==
    IF ts.days >= 0
      THEN [tag |-> "Ok", neg |-> FALSE,
            mag |-> MulAdd(MulAdd(IntToLimbs(ts.days), 675, 0), 128, ts.sod)]
      ELSE IF ts.sod = 0
        THEN [tag |-> "Ok", neg |-> TRUE,
              mag |-> MulAdd(MulAdd(IntToLimbs(0 - ts.days), 675, 0), 128, 0)]
        ELSE [tag |-> "Ok", neg |-> TRUE,
              mag |-> MulAdd(MulAdd(IntToLimbs((0 - ts.days) - 1), 675, 0),
                             128, 86400 - ts.sod)]

\* the civil date of a day number
CivilFromDays(days) ==
    LET z == days + 719468
        era == z \div 146097
        doe == z - era * 146097
        yoe == (doe - doe \div 1460 + doe \div 36524 - doe \div 146096) \div 365
        doy == doe - (365 * yoe + yoe \div 4 - yoe \div 100)
        mp == (5 * doy + 2) \div 153
        d == doy - (153 * mp + 2) \div 5 + 1
        m == IF mp < 10 THEN mp + 3 ELSE mp - 9
    IN  [year |-> yoe + era * 400 + (IF m <= 2 THEN 1 ELSE 0), month |-> m, day |-> d]

\* n in decimal, zero-padded to w characters
RECURSIVE Padded(_, _)
Padded(n, w) ==
    IF w = 0 /\ n = 0 THEN <<>>
    ELSE Append(Padded(n \div 10, IF w = 0 THEN 0 ELSE w - 1), DigitChar(n % 10))

\* "YYYY-MM-DDTHH:MM:SS" (a year outside 0..9999 is written with its sign)
DateTimeChars(ts) ==
    LET c == CivilFromDays(ts.days)
        yr == IF c.year >= 0 /\ c.year <= 9999 THEN Padded(c.year, 4)
              ELSE IF c.year < 0 THEN <<"-">> \o Padded(0 - c.year, 4)
              ELSE <<"+">> \o Padded(c.year, 5)
    IN  yr \o <<"-">> \o Padded(c.month, 2) \o <<"-">> \o Padded(c.day, 2) \o <<"T">>
           \o Padded(ts.sod \div 3600, 2) \o <<":">>
           \o Padded((ts.sod \div 60) % 60, 2) \o <<":">>
           \o Padded(ts.sod % 60, 2)

\* SecondsFormat::Millis: a point and three digits, always
ChronoFractionSecs(nanos) == <<>>
ChronoFraction(nanos) == <<".">> \o Padded(nanos \div 1000000, 3)

\* l.115-120 (chrono): self.0.to_rfc3339_opts(SecondsFormat::Millis, true)
chrono_fmt(ts) == DateTimeChars(ts) \o ChronoFraction(ts.nanos) \o <<"Z">>

\* Rfc3339 of the time crate: no fraction for a whole second, else the nine
\* nanosecond digits without their trailing zeros
RECURSIVE TrimZeros(_)
TrimZeros(cs) ==
    IF cs # <<>> /\ cs[Len(cs)] = "0" THEN TrimZeros(SubSeq(cs, 1, Len(cs) - 1)) ELSE cs
TimeFraction(nanos) ==
    IF nanos = 0 THEN <<>> ELSE <<".">> \o TrimZeros(Padded(nanos, 9))

\* l.216-221 (time): self.0.format(&Rfc3339).map_err(|_| std::fmt::Error)?
\* Rfc3339 refuses a year outside 0..=9999.
time_fmt(ts) ==
    IF CivilFromDays(ts.days).year < 0 \/ CivilFromDays(ts.days).year > 9999
      THEN <<"fmt::Error">>
      ELSE DateTimeChars(ts) \o TimeFraction(ts.nanos) \o <<"Z">>

ConstructChrono ==
    /\ tsChrono.tag = "Pending"
    /\ tsChrono' = IF tCtor = "from_discord_id" THEN chrono_from_discord_id(tArg)
                   ELSE chrono_from_unix_timestamp(tNeg, tArg)
    /\ UNCHANGED <<tCtor, tNeg, tArg, tsTime, strChrono, strTime, unixChrono, unixTime>>

ConstructTime ==
    /\ tsTime.tag = "Pending"
    /\ tsTime' = IF tCtor = "from_discord_id" THEN time_from_discord_id(tArg)
                 ELSE time_from_unix_timestamp(tNeg, tArg)
    /\ UNCHANGED <<tCtor, tNeg, tArg, tsChrono, strChrono, strTime, unixChrono, unixTime>>

DisplayChrono ==
    /\ tsChrono.tag = "Ok" /\ strChrono = <<>>
    /\ strChrono' = chrono_fmt(tsChrono)
    /\ UNCHANGED <<tCtor, tNeg, tArg, tsChrono, tsTime, strTime, unixChrono, unixTime>>

DisplayTime ==
    /\ tsTime.tag = "Ok" /\ strTime = <<>>
    /\ strTime' = time_fmt(tsTime)
    /\ UNCHANGED <<tCtor, tNeg, tArg, tsChrono, tsTime, strChrono, unixChrono, unixTime>>

UnixTimestampChrono ==
    /\ tsChrono.tag = "Ok" /\ unixChrono.tag = "Pending"
    /\ unixChrono' = unix_timestamp(tsChrono)
    /\ UNCHANGED <<tCtor, tNeg, tArg, tsChrono, tsTime, strChrono, strTime, unixTime>>

UnixTimestampTime ==
    /\ tsTime.tag = "Ok" /\ unixTime.tag = "Pending"
    /\ unixTime' = unix_timestamp(tsTime)
    /\ UNCHANGED <<tCtor, tNeg, tArg, tsChrono, tsTime, strChrono, strTime, unixChrono>>

TimeIdle ==
    /\ tCtor = "none" /\ tNeg = FALSE /\ tArg = <<>>
    /\ tsChrono = [tag |-> "None"] /\ tsTime = [tag |-> "None"]
    /\ strChrono = <<"-">> /\ strTime = <<"-">>
    /\ unixChrono = [tag |-> "None"] /\ unixTime = [tag |-> "None"]

InitPerms == PermsIdle /\ BuildIdle /\ NumIdle /\ TimeIdle

NextPerms ==
    \/ \E c \in ChanIds, p \in PermVals : Call(c, p) /\ UNCHANGED <<buildVars, numVars, timeVars>>
    \/ LookupChannel /\ UNCHANGED <<buildVars, numVars, timeVars>>
    \/ Classify /\ UNCHANGED <<buildVars, numVars, timeVars>>
    \/ LookupGuild /\ UNCHANGED <<buildVars, numVars, timeVars>>
    \/ ReadGuild /\ UNCHANGED <<buildVars, numVars, timeVars>>
    \/ Return /\ UNCHANGED <<buildVars, numVars, timeVars>>
    \/ \E c \in ChanIds, v \in Variants, g \in GuildIds :
          CacheInsertChannel(c, v, g) /\ UNCHANGED <<buildVars, numVars, timeVars>>
    \/ \E c \in ChanIds : CacheRemoveChannel(c) /\ UNCHANGED <<buildVars, numVars, timeVars>>
    \/ \E g \in GuildIds, p \in PermVals : CacheInsertGuild(g, p) /\ UNCHANGED <<buildVars, numVars, timeVars>>
    \/ \E g \in GuildIds : CacheRemoveGuild(g) /\ UNCHANGED <<buildVars, numVars, timeVars>>
    \/ \E c \in ChanIds, g \in GuildIds : WriteChannelCell(c, g) /\ UNCHANGED <<buildVars, numVars, timeVars>>
    \/ \E g \in GuildIds, p \in PermVals : WriteGuildCell(g, p) /\ UNCHANGED <<buildVars, numVars, timeVars>>

SpecPerms == InitPerms /\ [][NextPerms]_vars

InitBuild ==
    /\ bKind \in Builders
    /\ bWire \in {"ok", "malformed"}
    /\ bInput \in IF bWire = "ok" THEN SeqsUpTo(ElementsOf(bKind), MaxLen) ELSE {<<>>}
    /\ bPhase = "start"
    /\ bIdx = 1
    /\ bMap = <<>>
    /\ bHeap \in {<<>>, <<[id |-> 1, data |-> "a"]>>}
    /\ bOut = "running"
    /\ PermsIdle /\ NumIdle /\ TimeIdle

NextBuild ==
    \/ Decode /\ UNCHANGED <<permVars, numVars, timeVars>>
    \/ deserialize_emojis /\ UNCHANGED <<permVars, numVars, timeVars>>
    \/ deserialize_guild_channels /\ UNCHANGED <<permVars, numVars, timeVars>>
    \/ deserialize_members /\ UNCHANGED <<permVars, numVars, timeVars>>
    \/ deserialize_presences /\ UNCHANGED <<permVars, numVars, timeVars>>
    \/ deserialize_private_channels /\ UNCHANGED <<permVars, numVars, timeVars>>
    \/ deserialize_roles /\ UNCHANGED <<permVars, numVars, timeVars>>
    \/ deserialize_users /\ UNCHANGED <<permVars, numVars, timeVars>>
    \/ deserialize_voice_states /\ UNCHANGED <<permVars, numVars, timeVars>>
    \/ ReturnMap /\ UNCHANGED <<permVars, numVars, timeVars>>
    \/ deserialize_single_recipient /\ UNCHANGED <<permVars, numVars, timeVars>>

SpecBuild == InitBuild /\ [][NextBuild]_vars

InitNum ==
    /\ nVisitor \in {"U16Visitor", "U64Visitor"}
    /\ nMag \in {l \in SeqsUpTo(LimbVals, NumLimbs) : Trim(l) = l} \cup {ExampleId}
    /\ nNeg \in IF nMag = <<>> THEN {FALSE} ELSE BOOLEAN
    /\ nStr = <<>>
    /\ nNative = [tag |-> "Pending"]
    /\ nText = [tag |-> "Pending"]
    /\ PermsIdle /\ BuildIdle /\ TimeIdle

NextNum ==
    \/ WriteString /\ UNCHANGED <<permVars, buildVars, timeVars>>
    \/ DecodeNative /\ UNCHANGED <<permVars, buildVars, timeVars>>
    \/ DecodeString /\ UNCHANGED <<permVars, buildVars, timeVars>>

SpecNum == InitNum /\ [][NextNum]_vars

\* inputs: every u64 identifier, and every i64 count of seconds, whose limbs are
\* drawn from LimbVals, the identifier and the second of the module's tests, and
\* the last second before year 0
InitTime ==
    /\ \/ /\ tCtor = "from_discord_id"
          /\ tNeg = FALSE
          /\ tArg \in {l \in SeqsUpTo(LimbVals, 4) : Trim(l) = l} \cup {ExampleId}
       \/ /\ tCtor = "from_unix_timestamp"
          /\ tArg \in {l \in SeqsUpTo(LimbVals, 4) : Trim(l) = l /\ Len(l) = 4 => l[4] < 32768}
                     \cup {ExampleSecs, YearZeroSecs}
          /\ tNeg \in IF tArg = <<>> THEN {FALSE} ELSE BOOLEAN
    /\ tsChrono = [tag |-> "Pending"] /\ tsTime = [tag |-> "Pending"]
    /\ strChrono = <<>> /\ strTime = <<>>
    /\ unixChrono = [tag |-> "Pending"] /\ unixTime = [tag |-> "Pending"]
    /\ PermsIdle /\ BuildIdle /\ NumIdle

NextTime ==
    \/ ConstructChrono /\ UNCHANGED <<permVars, buildVars, numVars>>
    \/ ConstructTime /\ UNCHANGED <<permVars, buildVars, numVars>>
    \/ DisplayChrono /\ UNCHANGED <<permVars, buildVars, numVars>>
    \/ DisplayTime /\ UNCHANGED <<permVars, buildVars, numVars>>
    \/ UnixTimestampChrono /\ UNCHANGED <<permVars, buildVars, numVars>>
    \/ UnixTimestampTime /\ UNCHANGED <<permVars, buildVars, numVars>>

SpecTime == InitTime /\ [][NextTime]_vars

----------------------------------------------------------------------------
(* Claims about user_has_perms *)

\* the step in which the call returns
Returns == pc # "done" /\ pc' = "done"

HasBit(x, i) == (x \div (2^i)) % 2 = 1

\* C1: the call returns ItemMissing exactly when channel_id is not in the cache
\* or the channel is a guild channel whose guild_id (as the call read it from the
\* channel cell) is not in the cache, and an Ok boolean in every other case.
C1_ItemMissingExactly ==
    [][Returns =>
         LET absent == cacheChannels[channel_id] = "none"
             orphan == cacheChannels[channel_id] = "Guild" /\ guild_id \notin cacheGuilds
         IN  /\ (result' = "ItemMissing") <=> (absent \/ orphan)
             /\ (result' \in {"true", "false"}) <=> ~(absent \/ orphan)
             /\ (cacheChannels[channel_id] = "Guild" /\ ~cellWriteBetween)
                   => guild_id = chanGuildId[channel_id]]_vars

C1_Witness ==
    /\ pc = "done" /\ result = "ItemMissing" /\ channel = "Guild"
    /\ cacheChannels[channel_id] = "Guild" /\ guild_id \notin cacheGuilds

\* C2: for a cached Group, Private or Category channel the call returns Ok(true)
\* for every requested set, straight from the match, with no guild looked up.
C2_NonGuildGrantsAll ==
    [][(Returns /\ cacheChannels[channel_id] \in NonGuildVariants) =>
         /\ result' = "true"
         /\ pc = "classify"
         /\ guild_id' = 0]_vars

C2_Witness ==
    /\ pc = "done" /\ result = "true" /\ channel = "Category"
    /\ requested = MaxPermission /\ cacheGuilds = {}

\* C3: for a guild channel whose guild is cached the call returns Ok(true) iff
\* every requested bit is in guild.permissions_in(..); an empty request is true.
C3_TrueIffContained ==
    [][(Returns /\ cacheChannels[channel_id] = "Guild" /\ guild_id \in cacheGuilds) =>
         /\ result' \in {"true", "false"}
         /\ (result' = "true") <=>
               \A i \in 0..MaxPermission :
                   HasBit(requested, i) => HasBit(guildPerms[guild_id], i)
         /\ (requested = 0 => result' = "true")]_vars

C3_Witness ==
    /\ pc = "done" /\ result = "true" /\ channel = "Guild"
    /\ requested = 2 /\ guild_id \in cacheGuilds /\ guildPerms[guild_id] = 3

\* any writer of the cache map
CacheWrite ==
    \/ \E c \in ChanIds, v \in Variants, g \in GuildIds : CacheInsertChannel(c, v, g)
    \/ \E c \in ChanIds : CacheRemoveChannel(c)
    \/ \E g \in GuildIds, p \in PermVals : CacheInsertGuild(g, p)
    \/ \E g \in GuildIds : CacheRemoveGuild(g)

\* C4 as stated: no lock spans the call, so between the channel lookup and the
\* guild lookup a writer can take the cache write lock.
C4_Original_CacheWriterCanEnter ==
    pc \in {"classify", "lookup_guild"} => ENABLED CacheWrite

\* C4 amended: the cache read lock is held from entry to return, so no writer of
\* the cache map gets the write lock during a call; the channel cell and guild
\* cell read locks last one statement each, so cell writers are never excluded
\* between the steps.
C4_CacheLockSpansCall ==
    pc \in {"lookup_channel", "classify", "lookup_guild", "read_guild"} =>
        /\ ~ENABLED CacheWrite
        /\ cacheChannels[channel_id] = "Guild"
              => ENABLED (\E g \in GuildIds : WriteChannelCell(channel_id, g))
        /\ \A g \in cacheGuilds : ENABLED (\E p \in PermVals : WriteGuildCell(g, p))

C4_Witness ==
    pc = "lookup_guild" /\ cellWriteBetween /\ guild_id # chanGuildId[channel_id]

\* C10: the returned value can differ from every atomic evaluation on a state
\* that existed during the call, and only when a cell write committed after the
\* call read guild_id and before it read the guild's permissions.
C10_DivergenceNeedsCellWrite ==
    (pc = "done" /\ result \notin atomicResults) => cellWriteBetween

C10_Witness ==
    pc = "done" /\ result \in {"true", "false"} /\ result \notin atomicResults

----------------------------------------------------------------------------
(* Claims about the builders *)

\* the identifier an input element carries
IdentifierOf(e) ==
    IF "user" \in DOMAIN e THEN e.user.id
    ELSE IF "user_id" \in DOMAIN e THEN e.user_id
    ELSE IF "channel_id" \in DOMAIN e THEN e.channel_id
    ELSE e.id

\* the entity a map entry holds, looking through the cell where there is one
EntityAt(k) ==
    IF bKind \in {"guild_channels", "users"} THEN bHeap[bMap[k]] ELSE bMap[k]

LastIndexOf(k) ==
    CHOOSE i \in 1..Len(bInput) :
        /\ IdentifierOf(bInput[i]) = k
        /\ \A j \in (i + 1)..Len(bInput) : IdentifierOf(bInput[j]) # k

\* C5: a map builder returns a map whose keys are exactly the identifiers in the
\* input, each mapped to the last element carrying it; a duplicate is never an
\* error (only a failed decode is, and only a Guild or Category variant handed
\* to the private-channel builder aborts).
C5_LastWriteWins ==
    (bKind \in Builders \ {"single_recipient"} /\ bPhase = "done") =>
        /\ bOut = "Ok" =>
             /\ DOMAIN bMap = {IdentifierOf(bInput[i]) : i \in 1..Len(bInput)}
             /\ \A k \in DOMAIN bMap : EntityAt(k) = bInput[LastIndexOf(k)]
             /\ Cardinality(DOMAIN bMap)
                  = Cardinality({IdentifierOf(bInput[i]) : i \in 1..Len(bInput)})
        /\ bOut = "Err(decode)" <=> bWire = "malformed"
        /\ bOut = "panic" <=>
             (bKind = "private_channels"
                /\ \E i \in 1..Len(bInput) : bInput[i].variant \in {"Guild", "Category"})
        /\ bOut \in {"Ok", "Err(decode)", "panic"}

C5_Witness ==
    /\ bKind = "members" /\ bOut = "Ok" /\ Len(bInput) = 3
    /\ bInput[1].user.id = bInput[3].user.id /\ bInput[1] # bInput[3]
    /\ bInput[2].user.id # bInput[1].user.id
    /\ Cardinality(DOMAIN bMap) = 2 /\ bMap[bInput[1].user.id] = bInput[3]

\* C9: deserialize_single_recipient fails with "Expected a single recipient"
\* exactly when the decoded sequence is empty; otherwise it returns a newly
\* allocated cell holding the first element, whatever follows it.
C9_SingleRecipient ==
    [][(bKind = "single_recipient" /\ bPhase = "loop" /\ bPhase' = "done") =>
         /\ (bOut' = "Err(Expected a single recipient)") <=> (bInput = <<>>)
         /\ bInput = <<>> => bHeap' = bHeap
         /\ bInput # <<>> =>
              /\ bOut' = "Ok(cell)"
              /\ Len(bHeap') = Len(bHeap) + 1
              /\ bHeap'[Len(bHeap')] = bInput[1]
              /\ \A a \in 1..Len(bHeap) : bHeap'[a] = bHeap[a]]_vars

C9_Witness ==
    /\ bKind = "single_recipient" /\ bOut = "Ok(cell)" /\ Len(bInput) = 3
    /\ bInput[3] # bInput[1] /\ bInput[2] # bInput[1]
    /\ Len(bHeap) = 2 /\ bHeap[2] = bInput[1]

----------------------------------------------------------------------------
(* Claims about the identifier decoders *)

\* n is a value of the decoder's target type
InRange == ~nNeg /\ Len(nMag) <= TypeLimbs(nVisitor)

\* C6: decoding the native number n and decoding its decimal string give the
\* same outcome: the value n in both forms when n is in range, a failure in
\* both forms when it is not.
C6_SameOutcomeBothForms ==
    (nNative.tag # "Pending" /\ nText.tag # "Pending") =>
        IF InRange
          THEN /\ nNative = [tag |-> "Ok", val |-> nMag]
               /\ nText = [tag |-> "Ok", val |-> nMag]
          ELSE nNative.tag = "Err" /\ nText.tag = "Err"

----------------------------------------------------------------------------
(* Claims about Timestamp *)

IsDigit(c) == c \in {"0", "1", "2", "3", "4", "5", "6", "7", "8", "9"}

\* str ends in a point, exactly three digits and "Z"
ThreeDigitsThenZ(str) ==
    LET n == Len(str) IN
        /\ n >= 5 /\ str[n] = "Z" /\ str[n - 4] = "."
        /\ \A i \in (n - 3)..(n - 1) : IsDigit(str[i])
        /\ \A i \in 1..(n - 5) : str[i] # "."

\* C7 as stated: both backends display every Timestamp alike, always with three
\* fractional digits and "Z".
C7_Original_SameThreeDigitDisplay ==
    (strChrono # <<>> /\ strTime # <<>>) =>
        /\ strChrono = strTime
        /\ ThreeDigitsThenZ(strChrono)
        /\ ThreeDigitsThenZ(strTime)

\* C7 amended: chrono always displays three fractional digits and "Z"; for an
\* instant in the years 0..9999 time displays the same date and time to the
\* second, then the same fraction without its trailing zeros (nothing at all
\* for a whole second), then "Z"; so the two strings agree exactly when the
\* millisecond is not a multiple of ten.  Before year 0 chrono writes a signed
\* year and time's Display fails.
C7_DisplaysAgreeUpToTrailingZeros ==
    (strChrono # <<>> /\ strTime # <<>>) =>
      IF ~IsDigit(strChrono[1])
        THEN ThreeDigitsThenZ(strChrono) /\ strChrono[1] = "-" /\ strTime = <<"fmt::Error">>
        ELSE
        LET n == Len(strChrono)
            upToSecond == SubSeq(strChrono, 1, n - 5)
            f == SubSeq(strChrono, n - 3, n - 1)
            shortest == IF f = <<"0", "0", "0">> THEN <<>>
                        ELSE IF f[2] = "0" /\ f[3] = "0" THEN <<".", f[1]>>
                        ELSE IF f[3] = "0" THEN <<".", f[1], f[2]>>
                        ELSE <<".">> \o f
        IN  /\ ThreeDigitsThenZ(strChrono)
            /\ strTime = upToSecond \o shortest \o <<"Z">>
            /\ (strTime = strChrono) <=> (f[3] # "0")
            /\ tCtor = "from_unix_timestamp" => strTime = upToSecond \o <<"Z">>

C7_Witness ==
    /\ tCtor = "from_unix_timestamp" /\ ~tNeg /\ tArg = ExampleSecs
    /\ strChrono = <<"2", "0", "1", "6", "-", "0", "4", "-", "3", "0", "T", "1", "1", ":",
                     "1", "8", ":", "2", "5", ".", "0", "0", "0", "Z">>
    /\ strTime = <<"2", "0", "1", "6", "-", "0", "4", "-", "3", "0", "T", "1", "1", ":",
                   "1", "8", ":", "2", "5", "Z">>

\* id >> 22 read off the bits: result limb j takes the high ten bits of limb
\* j + 1 and the low six bits of limb j + 2 of the identifier
HighBitsOf(id) ==
    LET l == Pad(id, 6)
    IN  Trim([j \in 1..4 |-> (l[j + 1] \div 64) + (l[j + 2] % 64) * 1024])

\* 1420070400000
EpochMillis == MulAdd(MulAdd(MulAdd(<<1420>>, 10000, 704), 1000, 0), 100, 0)

\* the instant of a Timestamp in milliseconds since 1970 (on or after 1970)
MillisOf(ts) ==
    Add(MulAdd(MulAdd(MulAdd(IntToLimbs(ts.days), 1000, 0), 864, 0), 100, 0),
        IntToLimbs(ts.sod * 1000 + ts.nanos \div 1000000))

\* C8: for every u64 id, from_discord_id succeeds under both backends and yields
\* the instant (id >> 22) + 1420070400000 ms, the same in both, and
\* unix_timestamp() is that number of milliseconds divided by 1000, rounded down.
C8_FromDiscordId ==
    tCtor = "from_discord_id" =>
        LET instant == Add(HighBitsOf(tArg), EpochMillis)
            Right(ts) == /\ ts.days >= 0
                         /\ ts.nanos % 1000000 = 0
                         /\ MillisOf(ts) = instant
            Floor(u) == /\ ~u.neg
                        /\ \E r \in 0..999 : MulAdd(u.mag, 1000, r) = instant
        IN  /\ tsChrono.tag \in {"Pending", "Ok"}
            /\ tsTime.tag \in {"Pending", "Ok"}
            /\ tsChrono.tag = "Ok" => Right(tsChrono)
            /\ tsTime.tag = "Ok" => Right(tsTime)
            /\ (tsChrono.tag = "Ok" /\ tsTime.tag = "Ok") => tsChrono = tsTime
            /\ unixChrono.tag = "Ok" => Floor(unixChrono)
            /\ unixTime.tag = "Ok" => Floor(unixTime)
            /\ (unixChrono.tag = "Ok" /\ unixTime.tag = "Ok") => unixChrono = unixTime

C8_Witness ==
    /\ tCtor = "from_discord_id" /\ tArg = ExampleId
    /\ unixChrono = [tag |-> "Ok", neg |-> FALSE, mag |-> ExampleSecs]
    /\ unixTime = [tag |-> "Ok", neg |-> FALSE, mag |-> ExampleSecs]
    /\ tsChrono.nanos = 796000000 /\ tsTime = tsChrono

====
